---- MODULE Spec2Model ----
(***************************************************************************)
(* Model of the naive Bayes disease classifier of src/src/bayes.rs, the    *)
(* module src/src/main.rs runs: NaiveBayesClassifier::new reads the        *)
(* training records and fits the model, predict reads the query records,   *)
(* scores each with predict_one and writes the ID,Disease table.            *)
(*                                                                         *)
(* A string is modelled as a sequence of chunks: the chunk " " is a        *)
(* whitespace character, any other chunk is a run of non-whitespace        *)
(* characters.  The empty string is <<>>.                                  *)
(*                                                                         *)
(* An f64 is modelled bit for bit: a sign s (1 or -1), a significand m of  *)
(* at most 53 bits (four limbs of 14 bits, least significant first) and    *)
(* an exponent e, the value being s * m * 2^e.  A normal number has        *)
(* 2^52 <= m < 2^53; a subnormal number and zero have e = -1074 and        *)
(* m < 2^52.  Division and multiplication round to nearest, ties to even,  *)
(* as the hardware does, and a product underflows gradually to a subnormal *)
(* or to zero.  The program divides counts n <= d and multiplies values of *)
(* at most 1.0, so no operation overflows or yields a NaN; counts are      *)
(* integers up to 2^30.                                                    *)
(***************************************************************************)
EXTENDS Integers, Sequences, FiniteSets, TLC

\* Number of training records, and of query records, the reader delivers.
MaxTrain == 3
MaxQuery == 2
\* Number of training records in the runs with three-symptom queries.
MaxTrainOrder == 4

----------------------------------------------------------------------------
\* Strings

SP == " "
EmptyStr == << >>
Flu == << "Flu" >>
Cold == << "Cold" >>
Cough == << "Cough" >>
Fever == << "Fever" >>
Rash == << "Rash" >>

\* The records the training reader may deliver: cell 1 is the disease label,
\* cells 2.. are the symptom cells (the csv reader pads nothing: every record
\* of one file has the same number of cells; the file's first line is the
\* header, which the reader consumes and never delivers as a record).
TrainLabels == { Flu, Cold }
TrainCells ==
  { << EmptyStr, EmptyStr >>,
    << Cough, EmptyStr >>,
    << Cough, Fever >>,
    << << SP >>, EmptyStr >>,
    << Cough, << SP, "Cough", SP >> >> }
TrainRecords == { << l >> \o c : l \in TrainLabels, c \in TrainCells }

\* The training records of the runs that go on to predict.
RunTrainCells ==
  { << EmptyStr, EmptyStr >>,
    << Cough, EmptyStr >>,
    << Cough, Fever >> }
RunTrainRecords == { << l >> \o c : l \in TrainLabels, c \in RunTrainCells }

\* The records the query reader may deliver: cell 1 is never read.
QueryRecords ==
  { << Fever, EmptyStr, EmptyStr >>,
    << Cough, EmptyStr, Fever >>,
    << EmptyStr, Cough, << SP, "Fever" >> >> }

\* The training and query records of the runs with three-symptom queries.
OrderTrainRecords == { << Flu, Cough, Fever >>, << Cold, Cough, Rash >> }
OrderQueryRecords ==
  { << EmptyStr, Cough, Fever, Rash >>,
    << EmptyStr, Cough, EmptyStr, EmptyStr >> }

\* str::is_empty
IsEmpty(s) == Len(s) = 0

\* str::trim: leading and trailing whitespace removed
RECURSIVE TrimStart(_)
TrimStart(s) ==
  IF Len(s) = 0 THEN s
  ELSE IF Head(s) = SP THEN TrimStart(Tail(s)) ELSE s

RECURSIVE TrimEnd(_)
TrimEnd(s) ==
  IF Len(s) = 0 THEN s
  ELSE IF s[Len(s)] = SP THEN TrimEnd(SubSeq(s, 1, Len(s) - 1)) ELSE s

Trim(s) == TrimEnd(TrimStart(s))

\* usize::to_string: the decimal digits of n
DigitChars == << "0", "1", "2", "3", "4", "5", "6", "7", "8", "9" >>

RECURSIVE UsizeToString(_)
UsizeToString(n) ==
  IF n < 10 THEN << DigitChars[n + 1] >>
  ELSE UsizeToString(n \div 10) \o << DigitChars[(n % 10) + 1] >>

----------------------------------------------------------------------------
\* f64

\* The significand is held in four limbs of LimbBits bits.
LimbBits == 14
LimbBase == 2^14

\* The f64 of sign s, exponent e and significand m.
F64(s, e, m) == [s |-> s, e |-> e, m |-> m]
\* The significands 2^52 and 0.
MantMin == << 0, 0, 0, 2^10 >>
MantZero == << 0, 0, 0, 0 >>
\* The exponent of the subnormal numbers and of zero: the least exponent.
EMin == -1074
Zero == F64(1, EMin, MantZero)
One == F64(1, -52, MantMin)
MinusOne == F64(-1, -52, MantMin)

\* The limbs of a number given by its columns: carries propagated.
RECURSIVE CarryFrom(_, _, _)
CarryFrom(cols, i, carry) ==
  IF i > Len(cols) THEN << >>
  ELSE LET v == cols[i] + carry
       IN  << v % LimbBase >> \o CarryFrom(cols, i + 1, v \div LimbBase)

\* The significand m rounded up by one unit in the last place if up, and
\* renormalised when it reaches 2^53.
Rounded(s, e, m, up) ==
  LET r == IF up THEN CarryFrom(<< m[1] + 1, m[2], m[3], m[4] >>, 1, 0) ELSE m
  IN  IF r[4] = 2^11 THEN F64(s, e + 1, MantMin) ELSE F64(s, e, r)

\* The j with d <= n * 2^j < 2 * d, for 0 < n <= d.
RECURSIVE NormShift(_, _)
NormShift(n, d) == IF n >= d THEN 0 ELSE 1 + NormShift(2 * n, d)

\* The next k bits of the quotient by d and the remainder, from the
\* remainder r < d, one bit at a time.
RECURSIVE DivBits(_, _, _, _)
DivBits(r, d, k, q) ==
  IF k = 0 THEN << q, r >>
  ELSE DivBits((2 * r) % d, d, k - 1, 2 * q + (2 * r) \div d)

\* The same k <= LimbBits bits, in one step when r * 2^k fits the integers.
DivLimb(r, d, k) ==
  IF d <= 2^(31 - LimbBits) THEN << (r * 2^k) \div d, (r * 2^k) % d >>
  ELSE DivBits(r, d, k, 0)

\* (n as f64) / (d as f64) for counts 0 <= n <= d, 0 < d: the quotient
\* by long division, 11 bits then three times 14 bits, rounded to nearest,
\* ties to even.
F64Div(n, d) ==
  IF n = 0 THEN Zero
  ELSE LET j == NormShift(n, d)
           x4 == DivLimb(n * 2^j - d, d, 10)
           x3 == DivLimb(x4[2], d, LimbBits)
           x2 == DivLimb(x3[2], d, LimbBits)
           x1 == DivLimb(x2[2], d, LimbBits)
           r == x1[2]
           m == << x1[1], x2[1], x3[1], 2^10 + x4[1] >>
       IN  Rounded(1, -52 - j, m,
                   r > d - r \/ (r = d - r /\ m[1] % 2 = 1))

\* A nonzero f64 with its significand shifted up to 53 bits: a subnormal
\* gets an exponent below EMin.
RECURSIVE Normalised(_)
Normalised(a) ==
  IF a.m[4] >= 2^10 THEN a
  ELSE Normalised(F64(a.s, a.e - 1,
                      CarryFrom(<< 2 * a.m[1], 2 * a.m[2], 2 * a.m[3],
                                   2 * a.m[4] >>, 1, 0)))

\* The columns of the product of two significands.
MulCols(a, b) ==
  << a[1] * b[1],
     a[1] * b[2] + a[2] * b[1],
     a[1] * b[3] + a[2] * b[2] + a[3] * b[1],
     a[1] * b[4] + a[2] * b[3] + a[3] * b[2] + a[4] * b[1],
     a[2] * b[4] + a[3] * b[3] + a[4] * b[2],
     a[3] * b[4] + a[4] * b[3],
     a[4] * b[4],
     0 >>

\* The k-th limb of p, 0 above its length.
Limb(p, k) == IF k <= Len(p) THEN p[k] ELSE 0

\* The product p * 2^e of two 53-bit significands (105 or 106 bits) rounded
\* once, to nearest, ties to even: to 53 bits, or to fewer when the exponent
\* would fall below EMin (gradual underflow: a subnormal, or zero).  n is
\* the number of low bits of p rounded away.
RoundProduct(s, e, p) ==
  LET n0 == IF p[8] >= 2^7 THEN 53 ELSE 52
      n == IF EMin - e > n0 THEN EMin - e ELSE n0
      w == n \div LimbBits
      t == n % LimbBits
      lo == 2^t
      hi == 2^(LimbBits - t)
      q == << (Limb(p, w + 1) \div lo) + (Limb(p, w + 2) % lo) * hi,
              (Limb(p, w + 2) \div lo) + (Limb(p, w + 3) % lo) * hi,
              (Limb(p, w + 3) \div lo) + (Limb(p, w + 4) % lo) * hi,
              (Limb(p, w + 4) \div lo) + (Limb(p, w + 5) % lo) * hi >>
      gw == (n - 1) \div LimbBits
      half == 2^((n - 1) % LimbBits)
      guard == (Limb(p, gw + 1) \div half) % 2 = 1
      sticky == \/ Limb(p, gw + 1) % half # 0
                \/ \E k \in 1..Len(p) : k <= gw /\ p[k] # 0
  IN  Rounded(s, e + n, q, guard /\ (sticky \/ q[1] % 2 = 1))

\* a * b
F64Mul(a, b) ==
  IF a.m = MantZero \/ b.m = MantZero THEN F64(a.s * b.s, EMin, MantZero)
  ELSE LET x == Normalised(a)
           y == Normalised(b)
       IN  RoundProduct(x.s * y.s, x.e + y.e,
                        CarryFrom(MulCols(x.m, y.m), 1, 0))

\* a < b
MantLess(a, b) ==
  \E i \in 1..4 : a[i] < b[i] /\ \A j \in (i + 1)..4 : a[j] = b[j]
MagLess(a, b) == a.e < b.e \/ (a.e = b.e /\ MantLess(a.m, b.m))
F64Less(a, b) ==
  IF a.m = MantZero /\ b.m = MantZero THEN FALSE
  ELSE IF a.s # b.s THEN a.s < b.s
  ELSE IF a.s = 1 THEN MagLess(a, b) ELSE MagLess(b, a)

----------------------------------------------------------------------------
\* State

VARIABLES
  pc,             \* "new", "predict", "done" or "panic"
  train_records,  \* the records the training reader has delivered
  diseases_map,   \* disease |-> sequence of the symptom sets of its records
  all_symptoms,   \* the vocabulary
  num_records,
  disease_betas,  \* disease |-> (symptom |-> beta)
  disease_pis,    \* disease |-> pi
  iter_order,     \* the order in which disease_betas is iterated
  query_records,  \* the records the query reader has delivered
  results,        \* predict's results vector
  output          \* the records written to the output file

vars == << pc, train_records, diseases_map, all_symptoms, num_records,
           disease_betas, disease_pis, iter_order, query_records, results,
           output >>

EmptyMap == [x \in {} |-> 0]

\* The symptom set of a record: cells 2.., empty cells skipped, the others
\* trimmed and inserted.
RECURSIVE CollectSymptoms(_, _, _)
CollectSymptoms(record, i, acc) ==
  IF i > Len(record) THEN acc
  ELSE IF IsEmpty(record[i]) THEN CollectSymptoms(record, i + 1, acc)
  ELSE CollectSymptoms(record, i + 1, acc \cup { Trim(record[i]) })

SymptomSet(record) == CollectSymptoms(record, 2, {})

\* diseases_map.entry(disease) ... .push(symptoms)
PushInstance(dmap, disease, symptoms) ==
  IF disease \in DOMAIN dmap
  THEN [dmap EXCEPT ![disease] = Append(@, symptoms)]
  ELSE [d \in DOMAIN dmap \cup { disease } |->
          IF d = disease THEN << symptoms >> ELSE dmap[d]]

\* Total number of symptoms of a disease: the fold of the set sizes.
RECURSIVE NumSymptoms(_)
NumSymptoms(instances) ==
  IF Len(instances) = 0 THEN 0
  ELSE Cardinality(Head(instances)) + NumSymptoms(Tail(instances))

\* How often a symptom occurs for a disease: the fold over its records.
RECURSIVE NumSymptom(_, _)
NumSymptom(instances, symptom) ==
  IF Len(instances) = 0 THEN 0
  ELSE (IF symptom \in Head(instances) THEN 1 ELSE 0)
       + NumSymptom(Tail(instances), symptom)

\* Beta with the number of records of the disease in the denominator.
BetaRowCount(instances, symptom, total_num_symptoms) ==
  F64Div(NumSymptom(instances, symptom) + 1,
         Len(instances) + total_num_symptoms)

\* Beta without the add-one smoothing.
BetaNoSmoothing(instances, symptom, total_num_symptoms) ==
  F64Div(NumSymptom(instances, symptom),
         NumSymptoms(instances) + total_num_symptoms)

Beta(instances, symptom, total_num_symptoms) ==
  F64Div(NumSymptom(instances, symptom) + 1,
         NumSymptoms(instances) + total_num_symptoms)

ComputeBetas(dmap, symptoms) ==
  [d \in DOMAIN dmap |->
     [s \in symptoms |-> Beta(dmap[d], s, Cardinality(symptoms))]]

\* Pi counting only the records that have a symptom.
PiNonEmptyRecords(instances, n) ==
  F64Div(Cardinality({ i \in DOMAIN instances : instances[i] # {} }), n)

Pi(instances, n) == F64Div(Len(instances), n)

ComputePis(dmap, n) == [d \in DOMAIN dmap |-> Pi(dmap[d], n)]

\* The orders a hash map or hash set with the elements S may be iterated in.
Orders(S) ==
  { o \in [1..Cardinality(S) -> S] : \A d \in S : \E i \in DOMAIN o : o[i] = d }

----------------------------------------------------------------------------
\* predict_one.  psymptoms is the query's symptom set in the order the hash
\* set is iterated in: the f64 product depends on it.

\* The inner fold: acc * beta over the query symptoms, from 1.0.
RECURSIVE FoldBetas(_, _, _, _)
FoldBetas(betas, psymptoms, i, acc) ==
  IF i > Len(psymptoms) THEN acc
  ELSE FoldBetas(betas, psymptoms, i + 1, F64Mul(acc, betas[psymptoms[i]]))

ProductBetas(betas, psymptoms) == FoldBetas(betas, psymptoms, 1, One)

\* betas.get(psymptom).unwrap() panics for a symptom with no beta; the fold
\* visits every disease, so one missing entry suffices.
PredictOnePanics(order, psymptoms) ==
  \E i \in DOMAIN order :
    \E k \in DOMAIN psymptoms :
      psymptoms[k] \notin DOMAIN disease_betas[order[i]]

Score(disease, psymptoms) ==
  F64Mul(disease_pis[disease], ProductBetas(disease_betas[disease], psymptoms))

\* The closure with the comparison reversed.
FoldStepLess(best, disease, psymptoms) ==
  LET score == Score(disease, psymptoms)
  IN  IF F64Less(score, best.score)
      THEN [disease |-> disease, score |-> score]
      ELSE best

\* The closure with a non-strict comparison.
FoldStepGeq(best, disease, psymptoms) ==
  LET score == Score(disease, psymptoms)
  IN  IF ~F64Less(score, best.score)
      THEN [disease |-> disease, score |-> score]
      ELSE best

\* The closure that takes the new disease and keeps the old best score.
FoldStepKeepsScore(best, disease, psymptoms) ==
  LET score == Score(disease, psymptoms)
  IN  IF F64Less(best.score, score)
      THEN [disease |-> disease, score |-> best.score]
      ELSE best

\* The closure of the outer fold.
FoldStep(best, disease, psymptoms) ==
  LET score == Score(disease, psymptoms)
  IN  IF F64Less(best.score, score)
      THEN [disease |-> disease, score |-> score]
      ELSE best

RECURSIVE FoldDiseases(_, _, _, _)
FoldDiseases(order, i, best, psymptoms) ==
  IF i > Len(order) THEN best
  ELSE FoldDiseases(order, i + 1, FoldStep(best, order[i], psymptoms),
                    psymptoms)

PredictOne(order, psymptoms) ==
  FoldDiseases(order, 1, [disease |-> EmptyStr, score |-> MinusOne],
               psymptoms).disease

----------------------------------------------------------------------------
\* Operations

Init ==
  /\ pc = "new"
  /\ train_records = << >>
  /\ diseases_map = EmptyMap
  /\ all_symptoms = {}
  /\ num_records = 0
  /\ disease_betas = EmptyMap
  /\ disease_pis = EmptyMap
  /\ iter_order = << >>
  /\ query_records = << >>
  /\ results = << >>
  /\ output = << >>

\* new: one iteration of the loop over the training records.
ReadTrainRecord(record) ==
  /\ pc = "new"
  /\ train_records' = Append(train_records, record)
  /\ diseases_map' = PushInstance(diseases_map, record[1], SymptomSet(record))
  /\ all_symptoms' = all_symptoms \cup SymptomSet(record)
  /\ num_records' = num_records + 1
  /\ UNCHANGED << pc, disease_betas, disease_pis, iter_order, query_records,
                  results, output >>

\* new: the training reader is at its end; the betas and the pis are
\* computed and the classifier is returned.  order is the order in which
\* the hash map disease_betas will be iterated.
FinishNew(order) ==
  /\ pc = "new"
  /\ disease_betas' = ComputeBetas(diseases_map, all_symptoms)
  /\ disease_pis' = ComputePis(diseases_map, num_records)
  /\ iter_order' = order
  /\ pc' = "predict"
  /\ UNCHANGED << train_records, diseases_map, all_symptoms, num_records,
                  query_records, results, output >>

\* predict: one iteration of the loop over the query records.  psymptoms is
\* the record's symptom set in the order its hash set is iterated in.
PredictRecord(record, psymptoms) ==
  /\ pc = "predict"
  /\ query_records' = Append(query_records, record)
  /\ IF PredictOnePanics(iter_order, psymptoms)
     THEN /\ pc' = "panic"
          /\ UNCHANGED results
     ELSE /\ results' = Append(results, PredictOne(iter_order, psymptoms))
          /\ UNCHANGED pc
  /\ UNCHANGED << train_records, diseases_map, all_symptoms, num_records,
                  disease_betas, disease_pis, iter_order, output >>

\* The records with the 0-based index as the ID.
OutputRecordsZeroBased(res) ==
  << << << "ID" >>, << "Disease" >> >> >>
  \o [i \in 1..Len(res) |-> << UsizeToString(i - 1), res[i] >>]

\* The records predict writes: the header, then one record per result.
OutputRecords(res) ==
  << << << "ID" >>, << "Disease" >> >> >>
  \o [i \in 1..Len(res) |-> << UsizeToString(i), res[i] >>]

\* predict: the query reader is at its end; the results are written.
WriteResults ==
  /\ pc = "predict"
  /\ output' = OutputRecords(results)
  /\ pc' = "done"
  /\ UNCHANGED << train_records, diseases_map, all_symptoms, num_records,
                  disease_betas, disease_pis, iter_order, query_records,
                  results >>

\* A whole run of main: new, then predict.
Next ==
  \/ \E record \in RunTrainRecords :
       Len(train_records) < MaxTrain /\ ReadTrainRecord(record)
  \/ \E order \in Orders(DOMAIN diseases_map) : FinishNew(order)
  \/ \E record \in QueryRecords : \E psymptoms \in Orders(SymptomSet(record)) :
       Len(query_records) < MaxQuery /\ PredictRecord(record, psymptoms)
  \/ WriteResults

Spec == Init /\ [][Next]_vars

\* NaiveBayesClassifier::new alone, over the wider set of training records.
NextNew ==
  \/ \E record \in TrainRecords :
       Len(train_records) < MaxTrain /\ ReadTrainRecord(record)
  \/ \E order \in Orders(DOMAIN diseases_map) : FinishNew(order)

SpecNew == Init /\ [][NextNew]_vars

\* A whole run of main over three symptoms, with queries of three symptoms.
NextOrder ==
  \/ \E record \in OrderTrainRecords :
       Len(train_records) < MaxTrainOrder /\ ReadTrainRecord(record)
  \/ \E order \in Orders(DOMAIN diseases_map) : FinishNew(order)
  \/ \E record \in OrderQueryRecords :
       \E psymptoms \in Orders(SymptomSet(record)) :
         Len(query_records) < MaxQuery /\ PredictRecord(record, psymptoms)
  \/ WriteResults

SpecOrder == Init /\ [][NextOrder]_vars

----------------------------------------------------------------------------
\* What the claims speak of, defined on the records read

Fitted == pc \in { "predict", "done", "panic" }

\* The disease labels of the training set.
Diseases == { train_records[i][1] : i \in DOMAIN train_records }

\* The rows labeled d.
RowsOf(d) == { i \in DOMAIN train_records : train_records[i][1] = d }

\* The vocabulary: the union of the symptom sets of all rows.
Vocabulary == UNION { SymptomSet(train_records[i]) : i \in DOMAIN train_records }

\* c(d, s): the number of rows labeled d whose symptom set contains s.
CountDS(d, s) ==
  Cardinality({ i \in RowsOf(d) : s \in SymptomSet(train_records[i]) })

\* m_d: the sum of the symptom-set sizes over the rows labeled d.
SumSizes(d) ==
  Cardinality({ p \in RowsOf(d) \X Vocabulary :
                  p[2] \in SymptomSet(train_records[p[1]]) })

\* pi(d) and beta(d, s) as f64 quotients of the counts.
ClaimPi(d) == F64Div(Cardinality(RowsOf(d)), Len(train_records))

ClaimBeta(d, s) ==
  F64Div(CountDS(d, s) + 1, SumSizes(d) + Cardinality(Vocabulary))

RECURSIVE ClaimProduct(_, _, _)
ClaimProduct(d, q, k) ==
  IF k = 0 THEN One
  ELSE F64Mul(ClaimProduct(d, q, k - 1), ClaimBeta(d, q[k]))

\* score(d) = pi(d) * product over the query symptoms of beta(d, s), the
\* symptoms multiplied in the order q.
ClaimScore(d, q) == F64Mul(ClaimPi(d), ClaimProduct(d, q, Len(q)))

\* The diseases paired with their scores, the symptoms multiplied in the
\* order q.
ClaimScores(q) == { << d, ClaimScore(d, q) >> : d \in Diseases }

\* a >= b
F64Geq(a, b) == ~F64Less(a, b)

\* An f64 in [1/8, 1] in units of 2^-55, as << high, low >> with low < 2^28.
Fixed55(x) ==
  IF x.m = MantZero THEN << 0, 0 >>
  ELSE LET k == x.e + 55
           low == (x.m[2] * LimbBase + x.m[1]) * 2^k
       IN  << (x.m[4] * LimbBase + x.m[3]) * 2^k + low \div 2^28, low % 2^28 >>

RECURSIVE SumFixed55(_)
SumFixed55(S) ==
  IF S = {} THEN << 0, 0 >>
  ELSE LET d == CHOOSE x \in S : TRUE
           a == Fixed55(disease_pis[d])
           b == SumFixed55(S \ { d })
       IN  << a[1] + b[1] + (a[2] + b[2]) \div 2^28, (a[2] + b[2]) % 2^28 >>

\* The exact sum of the priors is within 2^-30 (less than 1e-9) of 1.
PisSumToOne ==
  LET s == SumFixed55(DOMAIN disease_pis)
  IN  \/ s[1] = 2^27 /\ s[2] <= 2^25
      \/ s[1] = 2^27 - 1 /\ s[2] >= 2^28 - 2^25

\* The symptom set of the i-th query record.
QuerySet(i) == SymptomSet(query_records[i])

\* A token is non-empty and has no leading or trailing whitespace.
Trimmed(t) == Len(t) > 0 /\ t[1] # SP /\ t[Len(t)] # SP

DigitValue(c) == CHOOSE k \in 0..9 : DigitChars[k + 1] = c

\* The number a string of decimal digits denotes.
RECURSIVE DecimalValue(_)
DecimalValue(s) ==
  IF Len(s) = 0 THEN 0
  ELSE 10 * DecimalValue(SubSeq(s, 1, Len(s) - 1)) + DigitValue(s[Len(s)])

Header == << << "ID" >>, << "Disease" >> >>

----------------------------------------------------------------------------
\* C1: every label a step of predict appends, predict_one having returned it
\* from a model with at least one disease for a query whose tokens are all in
\* the vocabulary, is a label of the training set, and its score pi * product
\* of betas, as computed in f64 in an order of the query's symptom set, is
\* greater than or equal to the score of every disease.
C1_PredictOneMaximizes ==
  [][Len(results') = Len(results) + 1 =>
       LET i == Len(results')
           label == results'[i]
           Q == SymptomSet(query_records'[i])
       IN  (Diseases # {} /\ Q \subseteq Vocabulary) =>
             /\ label \in Diseases
             /\ \E q \in Orders(Q) :
                  LET scores == ClaimScores(q)
                  IN  \E p \in scores :
                        /\ p[1] = label
                        /\ \A o \in scores : F64Geq(p[2], o[2])]_vars

\* A label was returned for a query of two symptoms over two diseases of
\* different scores, and the winner is the disease iterated second.
C1_Witness ==
  \E i \in DOMAIN results :
    /\ Cardinality(Diseases) = 2
    /\ Cardinality(QuerySet(i)) = 2
    /\ QuerySet(i) \subseteq Vocabulary
    /\ results[i] = iter_order[2]
    /\ \A q \in Orders(QuerySet(i)) : \E d \in Diseases :
         F64Less(ClaimScore(d, q), ClaimScore(results[i], q))

\* C2: after new, the stored beta(d, s) is (c(d,s) + 1) / (m_d + |vocabulary|)
\* for every disease d and every vocabulary symptom s, m_d being the sum of
\* the symptom-set sizes of the rows labeled d.
C2_BetaFormula ==
  Fitted =>
    /\ DOMAIN disease_betas = Diseases
    /\ \A d \in Diseases : \A s \in Vocabulary :
         /\ s \in DOMAIN disease_betas[d]
         /\ disease_betas[d][s]
              = F64Div(CountDS(d, s) + 1, SumSizes(d) + Cardinality(Vocabulary))

\* A model was fitted in which a disease's m_d differs from its row count.
C2_Witness ==
  /\ Fitted
  /\ Cardinality(Diseases) = 2
  /\ Cardinality(Vocabulary) >= 2
  /\ \E d \in Diseases :
       /\ SumSizes(d) > Cardinality(RowsOf(d))
       /\ Cardinality(RowsOf(d)) = 2

\* C3: a query row with a token absent from the training vocabulary is
\* rejected: no label is emitted for it.
C3_UnknownSymptomRejected ==
  \A i \in DOMAIN query_records :
    ~(QuerySet(i) \subseteq Vocabulary) => /\ i \notin DOMAIN results
                                           /\ pc = "panic"

\* C4: a run whose training input has zero rows produces no model, and no
\* label is emitted from a model with zero diseases.
C4_EmptyTrainingIsError ==
  /\ Fitted => Len(train_records) > 0
  /\ \A i \in DOMAIN results : Diseases # {}

\* The training set of scenario B has been fitted.
ScenarioB ==
  /\ Fitted
  /\ Len(train_records) = 3
  /\ Cardinality({ i \in DOMAIN train_records :
                     train_records[i] = << Flu, Cough, Fever >> }) = 1
  /\ Cardinality({ i \in DOMAIN train_records :
                     train_records[i] = << Cold, Cough, EmptyStr >> }) = 2

\* C5 as stated: in scenario B the score of Flu for the query [Fever] is
\* strictly greater than the score of Cold, and predict_one returns Flu.
C5_FluBeatsCold ==
  ScenarioB =>
    /\ F64Less(Score(Cold, << Fever >>), Score(Flu, << Fever >>))
    /\ \A i \in DOMAIN results : QuerySet(i) = { Fever } => results[i] = Flu

\* C5 amended: in scenario B the scores of Flu and of Cold for the query
\* [Fever] are equal, both the f64 of 1/6, and predict_one returns the one of
\* the two that is iterated first.
C5_FluTiesCold ==
  ScenarioB =>
    /\ Score(Flu, << Fever >>) = Score(Cold, << Fever >>)
    /\ Score(Flu, << Fever >>) = F64Div(1, 6)
    /\ \A i \in DOMAIN results :
         QuerySet(i) = { Fever } => results[i] = iter_order[1]

\* In scenario B the query [Fever] was answered with Cold.
C5_Witness ==
  /\ ScenarioB
  /\ \E i \in DOMAIN results : QuerySet(i) = { Fever } /\ results[i] = Cold

\* The label predict_one returns for the i-th query is the one it returns
\* under every iteration order of the disease map and of the query's symptom
\* set.
SameUnderEveryOrder(i) ==
  \A o \in Orders(DOMAIN disease_betas) : \A q \in Orders(QuerySet(i)) :
    PredictOne(o, q) = results[i]

\* One disease's computed score is strictly greater than every other
\* disease's, in whatever order the symptoms of Q are multiplied.
StrictWinner(Q) ==
  \E d \in DOMAIN disease_betas :
    \A q \in Orders(Q) : \A e \in DOMAIN disease_betas \ { d } :
      F64Less(Score(e, q), Score(d, q))

\* The winner of the query Q depends on the order its symptoms are
\* multiplied in.
WinnerDependsOnSymptomOrder(Q) ==
  \E q1, q2 \in Orders(Q) : \E d, e \in DOMAIN disease_betas :
    /\ F64Less(Score(e, q1), Score(d, q1))
    /\ F64Less(Score(d, q2), Score(e, q2))

\* C6 as stated: the predicted label is the same in every run, whatever the
\* iteration order of the disease map, ties of the maximal score included.
C6_Deterministic ==
  \A i \in DOMAIN results : SameUnderEveryOrder(i)

\* C6 amended: the predicted label is the same in every run when one
\* disease's computed score is strictly the greatest in whatever order the
\* query symptoms are multiplied.
C6_DeterministicWithStrictWinner ==
  \A i \in DOMAIN results : StrictWinner(QuerySet(i)) => SameUnderEveryOrder(i)

\* A label was predicted for a query of three symptoms over two diseases
\* with a strict winner, which is the disease iterated second.
C6_Witness ==
  \E i \in DOMAIN results :
    /\ Cardinality(DOMAIN disease_betas) = 2
    /\ Cardinality(QuerySet(i)) = 3
    /\ StrictWinner(QuerySet(i))
    /\ results[i] = iter_order[2]

\* C7: in a fitted model every disease has a beta for every vocabulary
\* symptom, each beta is in (0, 1], and the beta of a symptom never seen with
\* the disease is 1 / (m_d + |vocabulary|).
C7_BetaTotalAndBounded ==
  Fitted =>
    \A d \in Diseases :
      /\ d \in DOMAIN disease_betas
      /\ DOMAIN disease_betas[d] = Vocabulary
      /\ \A s \in Vocabulary :
           /\ F64Less(Zero, disease_betas[d][s])
           /\ F64Geq(One, disease_betas[d][s])
           /\ CountDS(d, s) = 0 =>
                disease_betas[d][s]
                  = F64Div(1, SumSizes(d) + Cardinality(Vocabulary))

\* A model was fitted with a symptom never seen with one of its diseases,
\* and with a beta equal to 1.
C7_Witness ==
  /\ Fitted
  /\ \E d \in Diseases : \E s \in Vocabulary : CountDS(d, s) = 0
  /\ \E d \in Diseases : \E s \in Vocabulary : disease_betas[d][s] = One

\* C8: in a model fitted from a non-empty training set each prior is the
\* number of rows labeled d over the number of rows, the priors sum to 1
\* (within 2^-30), and a row without symptoms counts.
C8_Priors ==
  (Fitted /\ Len(train_records) > 0) =>
    /\ DOMAIN disease_pis = Diseases
    /\ \A d \in Diseases :
         disease_pis[d] = F64Div(Cardinality(RowsOf(d)), Len(train_records))
    /\ PisSumToOne

\* A model was fitted over two diseases, one of which has a row without
\* symptoms and a row with symptoms, and whose priors are not powers of two.
C8_Witness ==
  /\ Fitted
  /\ Cardinality(Diseases) = 2
  /\ Len(train_records) = 3
  /\ \E i, j \in DOMAIN train_records :
       /\ train_records[i][1] = train_records[j][1]
       /\ SymptomSet(train_records[i]) = {}
       /\ SymptomSet(train_records[j]) # {}

\* C9: when predict succeeds on N query rows the output is the header
\* ID,Disease exactly once, then N rows with the IDs 1..N in order, the row
\* with ID i carrying the label predicted for the i-th query row.
C9_OutputRows ==
  pc = "done" =>
    /\ Len(output) = Len(query_records) + 1
    /\ output[1] = Header
    /\ Cardinality({ k \in DOMAIN output : output[k] = Header }) = 1
    /\ \A i \in DOMAIN query_records :
         /\ Len(output[i + 1]) = 2
         /\ DecimalValue(output[i + 1][1]) = i
         /\ \E q \in Orders(QuerySet(i)) :
              output[i + 1][2] = PredictOne(iter_order, q)

\* predict succeeded on the largest number of query rows, with different
\* labels for the first and the last.
C9_Witness ==
  /\ pc = "done"
  /\ Len(query_records) = MaxQuery
  /\ output[2][2] # output[MaxQuery + 1][2]

\* C10: no token of a per-row symptom set, of the vocabulary or of a query
\* symptom set is empty or has leading or trailing whitespace.
C10_TokensNonEmptyTrimmed ==
  /\ \A t \in all_symptoms : Trimmed(t)
  /\ \A d \in DOMAIN diseases_map : \A i \in DOMAIN diseases_map[d] :
       \A t \in diseases_map[d][i] : Trimmed(t)
  /\ \A i \in DOMAIN query_records : \A t \in QuerySet(i) : Trimmed(t)

====
